---- MODULE Spec2Model ----
(***************************************************************************)
(* Model of src/gym_app.py (class GymManagementSoftware): the record       *)
(* store (members, plans, payments, attendance), the expiry calculation,   *)
(* the status classification, the renewal notifier and the backup          *)
(* rotation.                                                               *)
(*                                                                         *)
(* Representation                                                          *)
(*   text         a sequence of one-character strings                      *)
(*   date text    "YYYY-MM-DD" is the tuple <<Y, M, D>>; "" is << >>       *)
(*   date         the proleptic Gregorian ordinal (datetime.date)          *)
(*   clock        `now` counts hours since midnight of EpochDate           *)
(*   file name    [prefix, stamp, ext]; "gym.db" has stamp NoStamp         *)
(***************************************************************************)
EXTENDS Integers, Sequences, FiniteSets, TLC

(***************************************************************************)
(* Bounds of the model                                                     *)
(***************************************************************************)
MaxTicks == 3

MaxDays == 2

MaxMemberIds == 2

MaxPlanIds == 5

MaxAttendanceIds == 3

MaxPaymentIds == 1

(***************************************************************************)
(* Program constants                                                       *)
(***************************************************************************)
DaysPerMonth == 30

RetentionDays == 7

IndiaLocalLen == 10

UpdateLocalLen == 10

Hour == 1

Day == 24 * Hour

EpochDate == <<2024, 1, 30>>

NoStamp == 0 - 1

\* SQL NULL / Python None for a text value
Null == << >>

\* None in place of a date (no date has ordinal 0)
NoDate == 0

(***************************************************************************)
(* Text helpers (str.strip, str.lstrip, str.isdigit, str.startswith)       *)
(***************************************************************************)
Digits == {"0", "1", "2", "3", "4", "5", "6", "7", "8", "9"}

Whitespace == {" "}

RECURSIVE LStrip(_, _)
LStrip(s, chars) ==
    IF s # << >> /\ Head(s) \in chars THEN LStrip(Tail(s), chars) ELSE s

RECURSIVE RStrip(_, _)
RStrip(s, chars) ==
    IF s # << >> /\ s[Len(s)] \in chars
    THEN RStrip(SubSeq(s, 1, Len(s) - 1), chars)
    ELSE s

Strip(s) == RStrip(LStrip(s, Whitespace), Whitespace)

IsDigit(s) == s # << >> /\ \A i \in 1..Len(s) : s[i] \in Digits

StartsWith(s, p) == Len(s) >= Len(p) /\ SubSeq(s, 1, Len(p)) = p

(***************************************************************************)
(* Calendar (datetime.date, datetime.strptime '%Y-%m-%d', date.isoformat)  *)
(***************************************************************************)
IsLeap(y) == (y % 4 = 0) /\ ((y % 100 # 0) \/ (y % 400 = 0))

DaysInMonth(y, m) ==
    IF m = 2 THEN (IF IsLeap(y) THEN 29 ELSE 28)
    ELSE IF m \in {4, 6, 9, 11} THEN 30 ELSE 31

DaysBeforeYear(y) ==
    LET p == y - 1 IN p * 365 + (p \div 4) - (p \div 100) + (p \div 400)

RECURSIVE DaysBeforeMonth(_, _)
DaysBeforeMonth(y, m) ==
    IF m <= 1 THEN 0 ELSE DaysBeforeMonth(y, m - 1) + DaysInMonth(y, m - 1)

ValidDateText(s) ==
    /\ Len(s) = 3
    /\ s[1] \in 1..9999
    /\ s[2] \in 1..12
    /\ s[3] \in 1..DaysInMonth(s[1], s[2])

ToOrdinal(s) == DaysBeforeYear(s[1]) + DaysBeforeMonth(s[1], s[2]) + s[3]

MinOrdinal == ToOrdinal(<<1, 1, 1>>)

MaxOrdinal == ToOrdinal(<<9999, 12, 31>>)

FromOrdinal(n) ==
    LET y == CHOOSE yy \in (((n - 1) \div 366) + 1)..(((n - 1) \div 365) + 1) :
                 DaysBeforeYear(yy) < n /\ n <= DaysBeforeYear(yy + 1)
        r == n - DaysBeforeYear(y)
        m == CHOOSE mm \in 1..12 :
                 DaysBeforeMonth(y, mm) < r
                 /\ r <= DaysBeforeMonth(y, mm) + DaysInMonth(y, mm)
    IN <<y, m, r - DaysBeforeMonth(y, m)>>

\* sqlite3 adapter and converter registered for DATE columns
adapt_date_iso(val) == FromOrdinal(val)

convert_date(val) == IF val = Null THEN NoDate ELSE ToOrdinal(val)

\* datetime.now().date() for a clock value
TodayAt(t) == ToOrdinal(EpochDate) + (t \div Day)

(***************************************************************************)
(* State                                                                   *)
(***************************************************************************)
VARIABLES
    pc,                 \* "stopped", "renewals", "backup", "mainloop", "crashed"
    now,                \* the wall clock, in hours since EpochDate 00:00
    ticks,              \* number of clock steps taken (bounded by MaxTicks)
    files,              \* working directory: set of [name, mtime]
    dotenv,             \* the .env file: key -> value
    cfg,                \* gym_name, gym_address, currency_symbol, theme_color, gym_phone
    members,            \* table members
    plans,              \* table subscription_plans
    payments,           \* table payments
    attendance,         \* table attendance
    seq,                \* sqlite_sequence: last AUTOINCREMENT id of each table
    members_tree,       \* rows shown in the members list
    plans_tree,         \* plan ids shown in the settings list
    plan_combo,         \* values of the plan combobox
    plan_var,           \* selected plan id
    country_code_var,   \* selected country code
    last                \* the last handler run: its inputs and what it reported

vars == <<pc, now, ticks, files, dotenv, cfg, members, plans, payments,
          attendance, seq, members_tree, plans_tree, plan_combo, plan_var,
          country_code_var, last>>

storeVars == <<members, plans, payments, attendance, seq>>

uiVars == <<members_tree, plans_tree, plan_combo, plan_var, country_code_var>>

Store == [members |-> members, plans |-> plans, payments |-> payments,
          attendance |-> attendance]

(***************************************************************************)
(* Files                                                                   *)
(***************************************************************************)
DbName == [prefix |-> "gym", stamp |-> NoStamp, ext |-> "db"]

BackupName(stamp) == [prefix |-> "gym_backup", stamp |-> stamp, ext |-> "db"]

\* datetime.now().strftime('%Y%m%d_%H%M%S'): the clock at its own resolution
Timestamp(t) == t

\* as if the pattern were "*.db"
GlobMatchAnyDb(name) == name.ext = "db"

\* glob pattern "gym_backup_*.db"
GlobMatch(name) == name.prefix = "gym_backup" /\ name.ext = "db"

FileNames(fs) == {f.name : f \in fs}

MTime(fs, name) == (CHOOSE f \in fs : f.name = name).mtime

\* create or overwrite a file; its modification time becomes t
WriteFile(fs, name, t) ==
    {f \in fs : f.name # name} \cup {[name |-> name, mtime |-> t]}

RemoveFile(fs, name) == {f \in fs : f.name # name}

(***************************************************************************)
(* Configuration                                                           *)
(***************************************************************************)
EnvDefaults ==
    [GYM_NAME |-> <<"V", "i", "v", "e", "k", " ", "G", "y", "m">>,
     GYM_ADDRESS |-> <<"1", "2", "3", " ", "M", "a", "i", "n", " ", "S", "t",
                     ",", " ", "C", "i", "t", "y">>,
     CURRENCY_SYMBOL |-> <<"Rs">>,
     THEME_COLOR |-> <<"#", "e", "8", "f", "4", "f", "d">>,
     GYM_PHONE |-> <<"9", "1", "6", "2", "3", "8", "1", "0", "0", "3", "9", "3">>]

\* re.sub(r"\s+#.*", "", part): an unquoted value ends where white space is
\* followed by a "#"
RECURSIVE CutComment(_)
CutComment(s) ==
    IF s = << >> THEN s
    ELSE IF Head(s) \in Whitespace /\ LStrip(s, Whitespace) # << >>
            /\ Head(LStrip(s, Whitespace)) = "#"
         THEN << >>
    ELSE <<Head(s)>> \o CutComment(Tail(s))

\* load_dotenv on a line KEY=value as update_gym_phone and update_gym_info
\* write it: the white space after "=", a trailing comment and trailing white
\* space are dropped
DotenvValue(text) == RStrip(CutComment(LStrip(text, Whitespace)), Whitespace)

\* os.getenv(key, default) after load_dotenv()
GetEnv(env, key) ==
    IF key \in DOMAIN env THEN DotenvValue(env[key]) ELSE EnvDefaults[key]

LoadCfg(env) ==
    [gym_name |-> GetEnv(env, "GYM_NAME"),
     gym_address |-> GetEnv(env, "GYM_ADDRESS"),
     currency_symbol |-> GetEnv(env, "CURRENCY_SYMBOL"),
     theme_color |-> GetEnv(env, "THEME_COLOR"),
     gym_phone |-> GetEnv(env, "GYM_PHONE")]

(***************************************************************************)
(* Record store                                                            *)
(***************************************************************************)
Ids(rows) == {r.id : r \in rows}

Row(rows, id) == CHOOSE r \in rows : r.id = id

default_plans ==
    { [id |-> 1, duration_months |-> 1, price |-> 500, description |-> "Monthly Plan"],
      [id |-> 2, duration_months |-> 3, price |-> 1400, description |-> "Quarterly Plan"],
      [id |-> 3, duration_months |-> 6, price |-> 2700, description |-> "Half-Yearly Plan"],
      [id |-> 4, duration_months |-> 12, price |-> 5000, description |-> "Yearly Plan"] }

\* the ids of a set of rows, in ascending order
RECURSIVE SortAsc(_)
SortAsc(S) ==
    IF S = {} THEN << >>
    ELSE LET m == CHOOSE x \in S : \A y \in S : x <= y
         IN <<m>> \o SortAsc(S \ {m})

RECURSIVE Reverse(_)
Reverse(s) == IF s = << >> THEN << >> ELSE Reverse(Tail(s)) \o <<Head(s)>>

\* UNIQUE(phone) of table members: may row `id` hold `phone`?
PhoneUniqueBroken(rows, id, phone) == TRUE

PhoneUnique(rows, id, phone) ==
    \A r \in rows : r.id # id => r.phone # phone

(***************************************************************************)
(* Expiry calculation and status classification                            *)
(***************************************************************************)
ExpiryCalculatorCalendar(join_date, months) == join_date + 31 * months

ExpiryCalculator(join_date, months) == join_date + DaysPerMonth * months

ClassifyStrict(expiry, today) ==
    IF expiry # NoDate /\ today < expiry THEN "Active" ELSE "Expired"

Classify(expiry, today) ==
    IF expiry # NoDate /\ today <= expiry THEN "Active" ELSE "Expired"

\* the rows of the members list as refresh_members builds them
TreeRow(r, today) ==
    [id |-> r.id, name |-> r.name, phone |-> r.phone,
     join_str |-> r.join_date, expiry_str |-> r.expiry_date,
     status |-> Classify(convert_date(r.expiry_date), today)]

RECURSIVE TreeRows(_, _, _)
TreeRows(ids, rows, today) ==
    IF ids = << >> THEN << >>
    ELSE <<TreeRow(Row(rows, Head(ids)), today)>> \o TreeRows(Tail(ids), rows, today)

\* refresh_members: the list, the plan combobox and the selected plan
RefreshMembers(rows, planRows, t) ==
    /\ members_tree' = [today |-> TodayAt(t),
                        rows |-> TreeRows(Reverse(SortAsc(Ids(rows))), rows, TodayAt(t))]
    /\ plan_combo' = SortAsc(Ids(planRows))
    /\ plan_var' = IF planRows # {} THEN Head(SortAsc(Ids(planRows))) ELSE plan_var

\* refresh_plans: SELECT * FROM subscription_plans ORDER BY duration_months
RECURSIVE SortByDuration(_)
SortByDuration(rows) ==
    IF rows = {} THEN << >>
    ELSE LET m == CHOOSE x \in rows : \A y \in rows :
                      \/ x.duration_months < y.duration_months
                      \/ (x.duration_months = y.duration_months /\ x.id <= y.id)
         IN <<m.id>> \o SortByDuration(rows \ {m})

RefreshPlans(planRows) == plans_tree' = SortByDuration(planRows)

(***************************************************************************)
(* Initial state: a fresh installation, the program not yet started        *)
(***************************************************************************)
Init ==
    /\ pc = "stopped"
    /\ now = 0
    /\ ticks = 0
    /\ files = {}
    /\ dotenv = << >>
    /\ cfg = LoadCfg(<< >>)
    /\ members = {}
    /\ plans = {}
    /\ payments = {}
    /\ attendance = {}
    /\ seq = [members |-> 0, plans |-> 0, payments |-> 0, attendance |-> 0]
    /\ members_tree = [today |-> TodayAt(0), rows |-> << >>]
    /\ plans_tree = << >>
    /\ plan_combo = <<1>>
    /\ plan_var = 1
    /\ country_code_var = <<"+", "9", "1">>
    /\ last = [op |-> "none"]

(***************************************************************************)
(* Process start: load_dotenv, __init__ up to the footer                   *)
(***************************************************************************)
\* setup_database: the tables persist; the default plans are inserted when
\* subscription_plans is empty
SeededPlans(planRows) == IF planRows = {} THEN
                             {[p EXCEPT !.id = seq.plans + p.id] : p \in default_plans}
                         ELSE planRows

Start ==
    /\ pc \in {"stopped", "crashed"}
    /\ plans = {} => seq.plans + 4 <= 2 * MaxPlanIds
    /\ pc' = "renewals"
    /\ cfg' = LoadCfg(dotenv)
    /\ plans' = SeededPlans(plans)
    /\ seq' = IF plans = {} THEN [seq EXCEPT !.plans = seq.plans + 4] ELSE seq
    /\ files' = IF plans = {} \/ DbName \notin FileNames(files)
                THEN WriteFile(files, DbName, now) ELSE files
    /\ country_code_var' = <<"+", "9", "1">>
    /\ RefreshMembers(members, plans', now)
    /\ RefreshPlans(plans')
    /\ last' = [op |-> "start"]
    /\ UNCHANGED <<now, ticks, dotenv, members, payments, attendance>>

(***************************************************************************)
(* Renewal notifier: check_and_send_renewals                               *)
(***************************************************************************)
NotifyPrefix == <<"9", "1">>

\* SELECT name, phone, expiry_date FROM members
\* WHERE expiry_date IN (today, tomorrow) AND phone LIKE '91%'
RenewalSelectedWide(rows, today) ==
    {r \in rows : /\ r.expiry_date \in {adapt_date_iso(today), adapt_date_iso(today + 1),
                                        adapt_date_iso(today + 2)}
                  /\ StartsWith(r.phone, NotifyPrefix)}

RenewalSelected(rows, today) ==
    LET tomorrow == today + 1
    IN {r \in rows : /\ r.expiry_date \in {adapt_date_iso(today), adapt_date_iso(tomorrow)}
                     /\ StartsWith(r.phone, NotifyPrefix)}

RenewalMsg(r, c) ==
    [name |-> r.name, expiry |-> adapt_date_iso(convert_date(r.expiry_date)),
     gym_name |-> c.gym_name, gym_address |-> c.gym_address, contact |-> c.gym_phone]

\* the for loop: one pwk.sendwhatmsg_instantly per row; `failing` are the
\* recipients for which the messenger raises
RECURSIVE SendLoopAborting(_, _, _, _, _)
SendLoopAborting(ids, rows, c, failing, acc) ==
    IF ids = << >> THEN acc
    ELSE LET r == Row(rows, Head(ids))
             ok == r.phone \notin failing
             a == [to |-> r.phone, msg |-> RenewalMsg(r, c), ok |-> ok]
             acc2 == [attempts |-> Append(acc.attempts, a),
                      sent_count |-> acc.sent_count + (IF ok THEN 1 ELSE 0)]
         IN IF ok THEN SendLoopAborting(Tail(ids), rows, c, failing, acc2) ELSE acc2

RECURSIVE SendLoop(_, _, _, _, _)
SendLoop(ids, rows, c, failing, acc) ==
    IF ids = << >> THEN acc
    ELSE LET r == Row(rows, Head(ids))
             ok == r.phone \notin failing
             a == [to |-> r.phone, msg |-> RenewalMsg(r, c), ok |-> ok]
         IN SendLoop(Tail(ids), rows, c, failing,
                     [attempts |-> Append(acc.attempts, a),
                      sent_count |-> acc.sent_count + (IF ok THEN 1 ELSE 0)])

\* as if a run earlier on the same day, known by the backup it left, had
\* been recorded and its reminders were not sent again
check_and_send_renewalsOncePerDay(failing) ==
    /\ pc = "renewals"
    /\ LET today == TodayAt(now)
           renewals == IF \E f \in files : GlobMatch(f.name) /\ TodayAt(f.mtime) = today
                       THEN {} ELSE RenewalSelected(members, today)
           res == SendLoop(SortAsc(Ids(renewals)), renewals, cfg, failing,
                           [attempts |-> << >>, sent_count |-> 0])
       IN /\ failing \subseteq {r.phone : r \in renewals}
          /\ last' = [op |-> "check_and_send_renewals", today |-> today,
                      attempts |-> res.attempts, sent_count |-> res.sent_count,
                      reported |-> res.sent_count > 0]
    /\ pc' = "backup"
    /\ UNCHANGED <<now, ticks, files, dotenv, cfg, storeVars, uiVars>>

check_and_send_renewals(failing) ==
    /\ pc = "renewals"
    /\ LET today == TodayAt(now)
           renewals == RenewalSelected(members, today)
           res == SendLoop(SortAsc(Ids(renewals)), renewals, cfg, failing,
                           [attempts |-> << >>, sent_count |-> 0])
       IN /\ failing \subseteq {r.phone : r \in renewals}
          /\ last' = [op |-> "check_and_send_renewals", today |-> today,
                      attempts |-> res.attempts, sent_count |-> res.sent_count,
                      reported |-> res.sent_count > 0]
    /\ pc' = "backup"
    /\ UNCHANGED <<now, ticks, files, dotenv, cfg, storeVars, uiVars>>

(***************************************************************************)
(* Backup rotation: auto_backup_and_cleanup                                *)
(***************************************************************************)
\* the orders in which glob.glob may list a set of names
RECURSIVE Perms(_)
Perms(S) ==
    IF S = {} THEN {<< >>}
    ELSE UNION {{<<x>> \o q : q \in Perms(S \ {x})} : x \in S}

\* order lists every name of S once
IsListing(order, S) ==
    /\ Len(order) = Cardinality(S)
    /\ {order[i] : i \in 1..Len(order)} = S

IsStaleInclusive(mod_time, t) == mod_time <= t - RetentionDays * Day

\* mod_time < week_ago, week_ago = now - 7 days
IsStale(mod_time, t) == mod_time < t - RetentionDays * Day

\* the cleanup loop over glob's result; os.remove raises for the names in
\* `failing`, which ends the loop and the handler
RECURSIVE PruneLoop(_, _, _, _, _)
PruneLoop(order, fs, t, failing, deleted) ==
    IF order = << >> THEN [files |-> fs, deleted |-> deleted, raised |-> FALSE]
    ELSE LET b == Head(order)
         IN IF IsStale(MTime(fs, b), t)
            THEN IF b \in failing
                 THEN [files |-> fs, deleted |-> deleted, raised |-> TRUE]
                 ELSE PruneLoop(Tail(order), RemoveFile(fs, b), t, failing, deleted + 1)
            ELSE PruneLoop(Tail(order), fs, t, failing, deleted)

\* copy: "ok", or shutil.copy raises leaving no file ("fail") or a partial
\* file ("partial")
auto_backup_and_cleanup(copy, order, failing) ==
    /\ pc = "backup"
    /\ LET backup_path == BackupName(Timestamp(now))
           copied == IF copy = "fail" THEN files ELSE WriteFile(files, backup_path, now)
           old_backups == {n \in FileNames(copied) : GlobMatch(n)}
           res == PruneLoop(order, copied, now, failing, 0)
           base == [op |-> "auto_backup_and_cleanup", before |-> files, now |-> now,
                    backup_path |-> backup_path, copy |-> copy, failing |-> failing]
       IN IF copy # "ok"
          THEN /\ order = << >>
               /\ failing = {}
               /\ files' = copied
               /\ pc' = "crashed"
               /\ last' = [base EXCEPT !.failing = {}] @@
                          [result |-> "uncaught", deleted |-> 0]
          ELSE /\ IsListing(order, old_backups)
               /\ failing \subseteq {n \in old_backups : IsStale(MTime(copied, n), now)}
               /\ files' = res.files
               /\ pc' = IF res.raised THEN "crashed" ELSE "mainloop"
               /\ last' = base @@
                          [result |-> IF res.raised THEN "uncaught" ELSE "reported",
                           deleted |-> res.deleted]
    /\ UNCHANGED <<now, ticks, dotenv, cfg, storeVars, uiVars>>

(***************************************************************************)
(* Leaving the main loop, and the passage of time                          *)
(***************************************************************************)
Exit ==
    /\ pc = "mainloop"
    /\ pc' = "stopped"
    /\ last' = [op |-> "exit"]
    /\ UNCHANGED <<now, ticks, files, dotenv, cfg, storeVars, uiVars>>

Tick(step) ==
    /\ pc \in {"stopped", "mainloop", "crashed"}
    /\ ticks < MaxTicks
    /\ now' = now + step
    /\ ticks' = ticks + 1
    /\ UNCHANGED <<pc, files, dotenv, cfg, storeVars, uiVars, last>>

(***************************************************************************)
(* Dialog results of simpledialog: a value, or None when cancelled         *)
(***************************************************************************)
Cancelled == [ok |-> FALSE, value |-> << >>]

Entered(v) == [ok |-> TRUE, value |-> v]

DigitVal(c) ==
    CASE c = "0" -> 0 [] c = "1" -> 1 [] c = "2" -> 2 [] c = "3" -> 3 [] c = "4" -> 4
      [] c = "5" -> 5 [] c = "6" -> 6 [] c = "7" -> 7 [] c = "8" -> 8 [] c = "9" -> 9

\* int(text) for a text of decimal digits
RECURSIVE ParseInt(_)
ParseInt(s) ==
    IF s = << >> THEN 0 ELSE 10 * ParseInt(SubSeq(s, 1, Len(s) - 1)) + DigitVal(s[Len(s)])

(***************************************************************************)
(* Members tab                                                             *)
(***************************************************************************)
CountryCodes == { <<"+", "1">>, <<"+", "9", "1">>, <<"+", "4", "4">>,
                  <<"+", "6", "1">>, <<"+", "8", "1">> }

India == <<"+", "9", "1">>

\* the validation of add_member, in the order of the code; "insert" when it
\* reaches the INSERT
AddMemberOutcome(name, country_code, phone_local, join_str, plan_id) ==
    LET phone == LStrip(country_code, {"+"}) \o phone_local
        months == Row(plans, plan_id).duration_months
    IN IF ~IsDigit(phone_local) THEN "error_digits"
       ELSE IF country_code = India /\ Len(phone_local) # IndiaLocalLen THEN "error_length"
       ELSE IF name = << >> \/ phone_local = << >> \/ join_str = << >> THEN "error_required"
       ELSE IF plan_id \notin Ids(plans) THEN "error_plan"
       ELSE IF ~ValidDateText(join_str) THEN "error_date"
       ELSE IF ExpiryCalculator(ToOrdinal(join_str), months) \notin MinOrdinal..MaxOrdinal
            THEN "uncaught_overflow"
       ELSE IF \E r \in members : r.phone = phone THEN "error_phone_exists"
       ELSE IF ~PhoneUnique(members, seq.members + 1, phone) THEN "error_database"
       ELSE "insert"

add_member(name_in, country_code, phone_in, join_in, plan_id, wa_ok) ==
    /\ pc = "mainloop"
    /\ country_code \in CountryCodes
    /\ plan_id \in {plan_combo[i] : i \in 1..Len(plan_combo)} \cup {plan_var}
    /\ LET name == Strip(name_in)
           phone_local == Strip(phone_in)
           join_str == join_in
           outcome == AddMemberOutcome(name, country_code, phone_local, join_str, plan_id)
           plan == Row(plans, plan_id)
           join_date == ToOrdinal(join_str)
           expiry_date == ExpiryCalculator(join_date, plan.duration_months)
           row == [id |-> seq.members + 1, name |-> name,
                   phone |-> LStrip(country_code, {"+"}) \o phone_local,
                   join_date |-> adapt_date_iso(join_date),
                   expiry_date |-> adapt_date_iso(expiry_date)]
       IN IF outcome = "insert"
          THEN /\ seq.members < MaxMemberIds
               /\ members' = members \cup {row}
               /\ seq' = [seq EXCEPT !.members = seq.members + 1]
               /\ files' = WriteFile(files, DbName, now)
               /\ RefreshMembers(members', plans, now)
               /\ last' = [op |-> "add_member", result |-> "ok", id |-> row.id,
                           months |-> plan.duration_months, welcome_ok |-> wa_ok]
          ELSE /\ wa_ok
               /\ plan_var' = plan_id
               /\ last' = [op |-> "add_member", result |-> outcome, id |-> 0,
                           months |-> 0, welcome_ok |-> FALSE]
               /\ UNCHANGED <<members, seq, files, members_tree, plan_combo>>
    /\ country_code_var' = country_code
    /\ UNCHANGED <<pc, now, ticks, dotenv, cfg, plans, payments, attendance, plans_tree>>

refresh_members ==
    /\ pc = "mainloop"
    /\ RefreshMembers(members, plans, now)
    /\ last' = [op |-> "refresh_members"]
    /\ UNCHANGED <<pc, now, ticks, files, dotenv, cfg, storeVars, plans_tree,
                   country_code_var>>

TreeIds == {members_tree.rows[i].id : i \in 1..Len(members_tree.rows)}

\* as if the UPDATE also restarted the membership from today
update_memberRenewing(selected, name_dlg, country_code, phone_dlg, tk_int) ==
    /\ pc = "mainloop"
    /\ country_code \in CountryCodes
    /\ selected \in TreeIds \cup {0}
    /\ LET new_phone == LStrip(country_code, {"+"}) \o Strip(phone_dlg.value)
           outcome ==
               IF selected = 0 THEN "warning_select"
               ELSE IF ~name_dlg.ok THEN "cancelled"
               ELSE IF tk_int THEN "uncaught_attribute"
               ELSE IF ~phone_dlg.ok THEN "error_digits"
               ELSE IF ~IsDigit(phone_dlg.value) \/ Len(phone_dlg.value) # UpdateLocalLen
                    THEN "error_length"
               ELSE IF ~PhoneUnique(members, selected, new_phone) /\ selected \in Ids(members)
                    THEN "error_update_failed"
               ELSE "update"
       IN /\ IF outcome = "update"
             THEN /\ members' = {IF r.id = selected
                                 THEN [r EXCEPT !.name = Strip(name_dlg.value),
                                                !.phone = new_phone,
                                                !.expiry_date = adapt_date_iso(
                                                    ExpiryCalculator(TodayAt(now), 1))]
                                 ELSE r : r \in members}
                  /\ files' = IF selected \in Ids(members)
                              THEN WriteFile(files, DbName, now) ELSE files
                  /\ RefreshMembers(members', plans, now)
             ELSE UNCHANGED <<members, files, members_tree, plan_combo, plan_var>>
          /\ last' = [op |-> "update_member", result |-> outcome, id |-> selected]
    /\ country_code_var' = country_code
    /\ UNCHANGED <<pc, now, ticks, dotenv, cfg, plans, payments, attendance, seq,
                   plans_tree>>

\* selected: a row id of the list, or 0 when nothing is selected.
\* tk_int: the list widget hands the all-digit phone column back as an int,
\* on which .lstrip raises AttributeError (line 340)
update_member(selected, name_dlg, country_code, phone_dlg, tk_int) ==
    /\ pc = "mainloop"
    /\ country_code \in CountryCodes
    /\ selected \in TreeIds \cup {0}
    /\ LET new_phone == LStrip(country_code, {"+"}) \o Strip(phone_dlg.value)
           outcome ==
               IF selected = 0 THEN "warning_select"
               ELSE IF ~name_dlg.ok THEN "cancelled"
               ELSE IF tk_int THEN "uncaught_attribute"
               ELSE IF ~phone_dlg.ok THEN "error_digits"
               ELSE IF ~IsDigit(phone_dlg.value) \/ Len(phone_dlg.value) # UpdateLocalLen
                    THEN "error_length"
               ELSE IF ~PhoneUnique(members, selected, new_phone) /\ selected \in Ids(members)
                    THEN "error_update_failed"
               ELSE "update"
       IN /\ IF outcome = "update"
             THEN /\ members' = {IF r.id = selected
                                 THEN [r EXCEPT !.name = Strip(name_dlg.value),
                                                !.phone = new_phone]
                                 ELSE r : r \in members}
                  /\ files' = IF selected \in Ids(members)
                              THEN WriteFile(files, DbName, now) ELSE files
                  /\ RefreshMembers(members', plans, now)
             ELSE UNCHANGED <<members, files, members_tree, plan_combo, plan_var>>
          /\ last' = [op |-> "update_member", result |-> outcome, id |-> selected]
    /\ country_code_var' = country_code
    /\ UNCHANGED <<pc, now, ticks, dotenv, cfg, plans, payments, attendance, seq,
                   plans_tree>>

\* as if the foreign keys of payments and attendance cascaded the delete
delete_memberCascading(selected, confirm) ==
    /\ pc = "mainloop"
    /\ selected \in TreeIds \cup {0}
    /\ LET outcome == IF selected = 0 THEN "warning_select"
                      ELSE IF ~confirm THEN "cancelled" ELSE "delete"
       IN /\ IF outcome = "delete"
             THEN /\ members' = {r \in members : r.id # selected}
                  /\ payments' = {p \in payments : p.member_id # selected}
                  /\ attendance' = {a \in attendance : a.member_id # selected}
                  /\ files' = IF selected \in Ids(members)
                              THEN WriteFile(files, DbName, now) ELSE files
                  /\ RefreshMembers(members', plans, now)
             ELSE UNCHANGED <<members, payments, attendance, files, members_tree,
                              plan_combo, plan_var>>
          /\ last' = [op |-> "delete_member", result |-> outcome, id |-> selected]
    /\ UNCHANGED <<pc, now, ticks, dotenv, cfg, plans, seq, plans_tree, country_code_var>>

delete_member(selected, confirm) ==
    /\ pc = "mainloop"
    /\ selected \in TreeIds \cup {0}
    /\ LET outcome == IF selected = 0 THEN "warning_select"
                      ELSE IF ~confirm THEN "cancelled" ELSE "delete"
       IN /\ IF outcome = "delete"
             THEN /\ members' = {r \in members : r.id # selected}
                  /\ files' = IF selected \in Ids(members)
                              THEN WriteFile(files, DbName, now) ELSE files
                  /\ RefreshMembers(members', plans, now)
             ELSE UNCHANGED <<members, files, members_tree, plan_combo, plan_var>>
          /\ last' = [op |-> "delete_member", result |-> outcome, id |-> selected]
    /\ UNCHANGED <<pc, now, ticks, dotenv, cfg, plans, payments, attendance, seq,
                   plans_tree, country_code_var>>

(***************************************************************************)
(* Settings tab: subscription plans                                        *)
(***************************************************************************)
\* `if months:` and `if price:` let every non-zero number through
add_plan(months_dlg, price_dlg, desc) ==
    /\ pc = "mainloop"
    /\ LET months == months_dlg.value
           price == price_dlg.value
           truthy(d) == d.ok /\ d.value # 0
           row == [id |-> seq.plans + 1, duration_months |-> months, price |-> price,
                   description |-> desc]
       IN IF truthy(months_dlg) /\ truthy(price_dlg)
          THEN /\ seq.plans < MaxPlanIds
               /\ plans' = plans \cup {row}
               /\ seq' = [seq EXCEPT !.plans = seq.plans + 1]
               /\ files' = WriteFile(files, DbName, now)
               /\ RefreshPlans(plans')
               /\ last' = [op |-> "add_plan", result |-> "ok", id |-> row.id]
          ELSE /\ last' = [op |-> "add_plan", result |-> "nothing", id |-> 0]
               /\ UNCHANGED <<plans, seq, files, plans_tree>>
    /\ UNCHANGED <<pc, now, ticks, dotenv, cfg, members, payments, attendance,
                   members_tree, plan_combo, plan_var, country_code_var>>

PlanTreeIds == {plans_tree[i] : i \in 1..Len(plans_tree)}

delete_plan(selected, confirm) ==
    /\ pc = "mainloop"
    /\ selected \in PlanTreeIds \cup {0}
    /\ IF selected # 0 /\ confirm
       THEN /\ plans' = {r \in plans : r.id # selected}
            /\ files' = WriteFile(files, DbName, now)
            /\ RefreshPlans(plans')
            /\ last' = [op |-> "delete_plan", result |-> "ok", id |-> selected]
       ELSE /\ last' = [op |-> "delete_plan", result |-> "nothing", id |-> selected]
            /\ UNCHANGED <<plans, files, plans_tree>>
    /\ UNCHANGED <<pc, now, ticks, dotenv, cfg, members, payments, attendance, seq,
                   members_tree, plan_combo, plan_var, country_code_var>>

(***************************************************************************)
(* Payments tab                                                            *)
(***************************************************************************)
\* float(text) accepts an optional sign before the digits
IsFloatText(s) == IsDigit(LStrip(s, {"+", "-"})) /\ Len(s) - Len(LStrip(s, {"+", "-"})) <= 1

FloatOf(s) ==
    IF Head(s) = "-" THEN 0 - ParseInt(Tail(s))
    ELSE ParseInt(LStrip(s, {"+"}))

\* SELECT id FROM members WHERE id=? followed by fetchone()
MemberExistsAlways(rows, member_id) == TRUE

MemberExists(rows, member_id) == member_id \in Ids(rows)

add_payment(member_id_in, amount_in, method_in, date_in) ==
    /\ pc = "mainloop"
    /\ LET member_id == Strip(member_id_in)
           amount == Strip(amount_in)
           method == Strip(method_in)
           date_str == date_in
           outcome ==
               IF member_id = << >> \/ amount = << >> \/ method = << >> \/ date_str = << >>
               THEN "error_required"
               ELSE IF ~IsFloatText(amount) \/ ~ValidDateText(date_str)
                    THEN "error_amount_or_date"
               ELSE IF ~IsDigit(member_id) THEN "uncaught_value"
               ELSE IF ~MemberExists(members, ParseInt(member_id)) THEN "error_no_member"
               ELSE "insert"
           row == [id |-> seq.payments + 1, member_id |-> ParseInt(member_id),
                   payment_date |-> adapt_date_iso(ToOrdinal(date_str)),
                   amount |-> FloatOf(amount), method |-> method]
       IN IF outcome = "insert"
          THEN /\ seq.payments < MaxPaymentIds
               /\ payments' = payments \cup {row}
               /\ seq' = [seq EXCEPT !.payments = seq.payments + 1]
               /\ files' = WriteFile(files, DbName, now)
               /\ last' = [op |-> "add_payment", result |-> "ok", id |-> row.id]
          ELSE /\ last' = [op |-> "add_payment", result |-> outcome, id |-> 0]
               /\ UNCHANGED <<payments, seq, files>>
    /\ UNCHANGED <<pc, now, ticks, dotenv, cfg, members, plans, attendance, uiVars>>

(***************************************************************************)
(* Attendance tab                                                          *)
(***************************************************************************)
AttendanceStatuses == {"Present", "Absent"}

AlreadyMarkedNever(rows, member_id, att_date) == FALSE

\* SELECT id FROM attendance WHERE member_id=? AND att_date=?
AlreadyMarked(rows, member_id, att_date) ==
    \E r \in rows : r.member_id = member_id /\ r.att_date = adapt_date_iso(att_date)

mark_attendance(member_id_in, status, date_in) ==
    /\ pc = "mainloop"
    /\ status \in AttendanceStatuses
    /\ LET member_id == Strip(member_id_in)
           date_str == date_in
           att_date == ToOrdinal(date_str)
           outcome ==
               IF member_id = << >> \/ date_str = << >> THEN "error_required"
               ELSE IF ~ValidDateText(date_str) THEN "error_date"
               ELSE IF ~IsDigit(member_id) THEN "uncaught_value"
               ELSE IF ParseInt(member_id) \notin Ids(members) THEN "error_no_member"
               ELSE IF AlreadyMarked(attendance, ParseInt(member_id), att_date)
                    THEN "error_already_marked"
               ELSE "insert"
           row == [id |-> seq.attendance + 1, member_id |-> ParseInt(member_id),
                   att_date |-> adapt_date_iso(att_date), status |-> status]
       IN IF outcome = "insert"
          THEN /\ seq.attendance < MaxAttendanceIds
               /\ attendance' = attendance \cup {row}
               /\ seq' = [seq EXCEPT !.attendance = seq.attendance + 1]
               /\ files' = WriteFile(files, DbName, now)
               /\ last' = [op |-> "mark_attendance", result |-> "ok", id |-> row.id]
          ELSE /\ last' = [op |-> "mark_attendance", result |-> outcome, id |-> 0]
               /\ UNCHANGED <<attendance, seq, files>>
    /\ UNCHANGED <<pc, now, ticks, dotenv, cfg, members, plans, payments, uiVars>>

(***************************************************************************)
(* Inputs                                                                  *)
(***************************************************************************)
NameA == <<"A">>

NameB == <<"B", " ">>

Local1 == <<"9", "8", "7", "6", "5", "4", "3", "2", "1", "0">>

Local2 == <<"9", "1", "2", "3", "4", "5", "6", "7", "8", "9">>

LocalShort == <<"9", "1", "5">>

LocalBad == <<"9", "8", "7", "6", "5", "x", "3", "2", "1", "0">>

(***************************************************************************)
(* Process start with every input of the start-up handlers                 *)
(***************************************************************************)
Renewals ==
    \E failing \in SUBSET {r.phone : r \in members} : check_and_send_renewals(failing)

BackupOrders == Perms({n \in FileNames(files) \cup {BackupName(Timestamp(now))} : GlobMatch(n)})

BackupOk == \E order \in BackupOrders : auto_backup_and_cleanup("ok", order, {})

(***************************************************************************)
(* Plans and enrolment in one run of the program                           *)
(***************************************************************************)
NextPlans ==
    \/ Start
    \/ Renewals
    \/ BackupOk
    \/ \E phone \in {Local1, Local2}, join \in {<<2024, 1, 1>>, <<9999, 12, 31>>},
          plan_id \in {1} \cup (5..MaxPlanIds) :
           add_member(NameA, India, phone, join, plan_id, TRUE)
    \/ refresh_members
    \/ \E sel \in 1..MaxMemberIds, tk_int \in BOOLEAN :
           update_member(sel, Entered(NameB), India, Entered(Local1), tk_int)
    \/ \E sel \in 1..MaxMemberIds : delete_member(sel, TRUE)
    \/ \E months \in {Entered(0), Entered(0 - 1), Entered(2)},
          price \in {Cancelled, Entered(100)} :
           add_plan(months, price, "Plan")
    \/ \E sel \in 5..MaxPlanIds : delete_plan(sel, TRUE)

SpecPlans == Init /\ [][NextPlans]_vars

(***************************************************************************)
(* The members list over several days of one run                           *)
(***************************************************************************)
DayTick == now < MaxDays * Day /\ Tick(Day)

NextRoster ==
    \/ Start
    \/ Renewals
    \/ BackupOk
    \/ \E phone \in {Local1, Local2}, join \in {<<2024, 1, 1>>, <<2024, 1, 2>>} :
           add_member(NameA, India, phone, join, 1, TRUE)
    \/ refresh_members
    \/ \E sel \in 1..MaxMemberIds : delete_member(sel, TRUE)
    \/ DayTick

SpecRoster == Init /\ [][NextRoster]_vars

(***************************************************************************)
(* Phone numbers in one run                                                *)
(***************************************************************************)
NextPhones ==
    \/ Start
    \/ Renewals
    \/ BackupOk
    \/ \E cc \in {India, <<"+", "1">>}, phone \in {Local1, LocalShort, LocalBad},
          wa_ok \in BOOLEAN :
           add_member(NameA, cc, phone, <<2024, 1, 1>>, 1, wa_ok)
    \/ \E sel \in 0..MaxMemberIds, name \in {Cancelled, Entered(NameB)},
          cc \in {India, <<"+", "1">>},
          phone \in {Cancelled, Entered(Local1), Entered(LocalShort)},
          tk_int \in BOOLEAN :
           update_member(sel, name, cc, phone, tk_int)
    \/ \E sel \in 0..MaxMemberIds, confirm \in BOOLEAN : delete_member(sel, confirm)

SpecPhones == Init /\ [][NextPhones]_vars

(***************************************************************************)
(* Attendance in one run                                                   *)
(***************************************************************************)
NextAttendance ==
    \/ Start
    \/ Renewals
    \/ BackupOk
    \/ \E phone \in {Local1, Local2} :
           add_member(NameA, India, phone, <<2024, 1, 1>>, 1, TRUE)
    \/ \E sel \in 1..MaxMemberIds : delete_member(sel, TRUE)
    \/ \E member_id \in { <<"1">>, <<" ", "2">>, <<"0", "1">>, <<"x">>, << >> },
          status \in AttendanceStatuses,
          date \in { <<2024, 2, 1>>, <<2024, 2, 2>>, <<2024, 2, 30>> } :
           mark_attendance(member_id, status, date)

SpecAttendance == Init /\ [][NextAttendance]_vars

(***************************************************************************)
(* Restarts on successive days: the renewal notifier                       *)
(***************************************************************************)
NextNotifier ==
    \/ Start
    \/ Renewals
    \/ BackupOk
    \/ \E cc \in {India, <<"+", "1">>}, phone \in {Local1, Local2},
          join \in {<<2024, 1, 1>>, <<2024, 1, 2>>} :
           add_member(NameA, cc, phone, join, 1, TRUE)
    \/ Exit
    \/ DayTick

SpecNotifier == Init /\ [][NextNotifier]_vars

(***************************************************************************)
(* Restarts over more than a retention window: the backup rotation         *)
(***************************************************************************)
TickSteps == {Hour, Day, 2 * Day, 6 * Day - Hour}

StaleBackups == {n \in FileNames(files) : GlobMatch(n) /\ IsStale(MTime(files, n), now)}

NextBackup ==
    \/ Start
    \/ Renewals
    \/ \E copy \in {"ok", "fail", "partial"}, order \in BackupOrders \cup {<< >>},
          failing \in {{}} \cup {{n} : n \in StaleBackups} :
           auto_backup_and_cleanup(copy, order, failing)
    \/ Exit
    \/ \E step \in TickSteps : pc # "mainloop" /\ Tick(step)

SpecBackup == Init /\ [][NextBackup]_vars

(***************************************************************************)
(* Settings tab: gym phone and gym info; the footer's manual backup        *)
(***************************************************************************)
\* `if new_phone and new_phone.isdigit()`; the file is opened with 'w', so
\* the line written is all that is left of it
update_gym_phoneRetriggering(phone_dlg) ==
    /\ pc = "mainloop"
    /\ IF phone_dlg.ok /\ phone_dlg.value # << >> /\ IsDigit(phone_dlg.value)
       THEN /\ dotenv' = [key \in {"GYM_PHONE"} |-> phone_dlg.value]
            /\ cfg' = [cfg EXCEPT !.gym_phone = phone_dlg.value]
            /\ last' = [op |-> "update_gym_phone", result |-> "ok"]
       ELSE /\ last' = [op |-> "update_gym_phone", result |-> "error_digits"]
            /\ UNCHANGED <<dotenv, cfg>>
    /\ pc' = "renewals"
    /\ UNCHANGED <<now, ticks, files, storeVars, uiVars>>

update_gym_phone(phone_dlg) ==
    /\ pc = "mainloop"
    /\ IF phone_dlg.ok /\ phone_dlg.value # << >> /\ IsDigit(phone_dlg.value)
       THEN /\ dotenv' = [key \in {"GYM_PHONE"} |-> phone_dlg.value]
            /\ cfg' = [cfg EXCEPT !.gym_phone = phone_dlg.value]
            /\ last' = [op |-> "update_gym_phone", result |-> "ok"]
       ELSE /\ last' = [op |-> "update_gym_phone", result |-> "error_digits"]
            /\ UNCHANGED <<dotenv, cfg>>
    /\ UNCHANGED <<pc, now, ticks, files, storeVars, uiVars>>

\* each `if new_...:` keeps the old value for a cancelled or empty answer
Answer(dlg, old) == IF dlg.ok /\ dlg.value # << >> THEN dlg.value ELSE old

update_gym_info(name_dlg, address_dlg, currency_dlg, theme_dlg) ==
    /\ pc = "mainloop"
    /\ cfg' = [cfg EXCEPT !.gym_name = Answer(name_dlg, cfg.gym_name),
                          !.gym_address = Answer(address_dlg, cfg.gym_address),
                          !.currency_symbol = Answer(currency_dlg, cfg.currency_symbol),
                          !.theme_color = Answer(theme_dlg, cfg.theme_color)]
    /\ dotenv' = [key \in {"GYM_NAME", "GYM_ADDRESS", "CURRENCY_SYMBOL", "THEME_COLOR"} |->
                     CASE key = "GYM_NAME" -> cfg'.gym_name
                       [] key = "GYM_ADDRESS" -> cfg'.gym_address
                       [] key = "CURRENCY_SYMBOL" -> cfg'.currency_symbol
                       [] key = "THEME_COLOR" -> cfg'.theme_color]
    /\ last' = [op |-> "update_gym_info", result |-> "ok"]
    /\ UNCHANGED <<pc, now, ticks, files, storeVars, uiVars>>

\* tcl_error: asksaveasfilename is called with an `initialvalue` option,
\* which the file dialog may refuse with a TclError before it opens.
\* path_dlg: the path the dialog returns, cancelled when it returns ''
backup_db(tcl_error, path_dlg) ==
    /\ pc = "mainloop"
    /\ IF tcl_error
       THEN /\ last' = [op |-> "backup_db", result |-> "uncaught_tcl"]
            /\ UNCHANGED files
       ELSE IF ~path_dlg.ok
       THEN /\ last' = [op |-> "backup_db", result |-> "cancelled"]
            /\ UNCHANGED files
       ELSE /\ path_dlg.value # DbName
            /\ files' = WriteFile(files, path_dlg.value, now)
            /\ last' = [op |-> "backup_db", result |-> "ok"]
    /\ UNCHANGED <<pc, now, ticks, dotenv, cfg, storeVars, uiVars>>

(***************************************************************************)
(* Entry forms in one run: inputs the handlers have to reject              *)
(***************************************************************************)
Cash == <<"c", "a", "s", "h">>

FormPhones == {Local1, Local2, LocalBad}

FormJoins == { <<2024, 1, 1>>, <<2024, 13, 1>>, <<9999, 12, 31>> }

FormDates == { <<2024, 2, 1>>, <<2024, 2, 30>> }

FormMemberIds == { <<"1">>, <<"x">> }

FormAmounts == { <<"5">>, <<"a">> }

NextForms ==
    \/ Start
    \/ Renewals
    \/ BackupOk
    \/ \E phone \in FormPhones, join \in FormJoins :
           add_member(NameA, India, phone, join, 1, TRUE)
    \/ \E sel \in 1..MaxMemberIds, phone \in FormPhones, tk_int \in BOOLEAN :
           update_member(sel, Entered(NameB), India, Entered(phone), tk_int)
    \/ \E member_id \in FormMemberIds, amount \in FormAmounts, date \in FormDates :
           add_payment(member_id, amount, Cash, date)
    \/ \E member_id \in FormMemberIds, date \in FormDates :
           mark_attendance(member_id, "Present", date)

SpecForms == Init /\ [][NextForms]_vars

(***************************************************************************)
(* Payments and attendance of members that come and go in one run          *)
(***************************************************************************)
LedgerMemberIds == { <<"1">>, <<"2">> }

LedgerAmounts == { <<"5">>, <<"-", "5">> }

NextLedger ==
    \/ Start
    \/ Renewals
    \/ BackupOk
    \/ \E phone \in {Local1, Local2} :
           add_member(NameA, India, phone, <<2024, 1, 1>>, 1, TRUE)
    \/ \E sel \in 1..MaxMemberIds : delete_member(sel, TRUE)
    \/ \E member_id \in LedgerMemberIds, amount \in LedgerAmounts :
           add_payment(member_id, amount, Cash, <<2024, 2, 1>>)
    \/ \E member_id \in LedgerMemberIds :
           mark_attendance(member_id, "Present", <<2024, 2, 1>>)

SpecLedger == Init /\ [][NextLedger]_vars

(***************************************************************************)
(* A run that stays open for days: the manual backup                       *)
(***************************************************************************)
ManualPaths == {BackupName(Timestamp(now)), [prefix |-> "copy", stamp |-> NoStamp, ext |-> "db"]}

NextManual ==
    \/ Start
    \/ Renewals
    \/ BackupOk
    \/ \E tcl_error \in BOOLEAN, path_dlg \in {Cancelled} \cup {Entered(p) : p \in ManualPaths} :
           backup_db(tcl_error, path_dlg)
    \/ Exit
    \/ \E step \in {2 * Day, 6 * Day - Hour} : Tick(step)

SpecManual == Init /\ [][NextManual]_vars

(***************************************************************************)
(* Whole sessions: start, the interactive operations, exit, restart        *)
(***************************************************************************)
Phone915 == <<"9", "1", "5">>

NextSession ==
    \/ Start
    \/ Renewals
    \/ BackupOk
    \/ auto_backup_and_cleanup("fail", << >>, {})
    \/ add_member(NameA, India, Local1, <<2024, 1, 1>>, 1, TRUE)
    \/ add_payment(<<"1">>, <<"5">>, Cash, <<2024, 2, 1>>)
    \/ mark_attendance(<<"1">>, "Present", <<2024, 2, 1>>)
    \/ update_gym_phone(Entered(Phone915))
    \/ update_gym_info(Entered(NameA), Cancelled, Cancelled, Cancelled)
    \/ Exit
    \/ DayTick

SpecSession == Init /\ [][NextSession]_vars

(***************************************************************************)
(* Several starts on one day                                               *)
(***************************************************************************)
NextRestarts ==
    \/ Start
    \/ Renewals
    \/ BackupOk
    \/ \E phone \in {Local1, Local2} :
           add_member(NameA, India, phone, <<2024, 1, 1>>, 1, TRUE)
    \/ Exit
    \/ Tick(Hour)

SpecRestarts == Init /\ [][NextRestarts]_vars

(***************************************************************************)
(* The plan table over restarts                                            *)
(***************************************************************************)
NextSeeding ==
    \/ Start
    \/ Renewals
    \/ BackupOk
    \/ add_plan(Entered(2), Entered(100), "Plan")
    \/ \E sel \in 1..(2 * MaxPlanIds) : delete_plan(sel, TRUE)
    \/ Exit

SpecSeeding == Init /\ [][NextSeeding]_vars

(***************************************************************************)
(* Settings over restarts                                                  *)
(***************************************************************************)
InfoAnswers(v) == {Cancelled, Entered(v)}

NextSettings ==
    \/ Start
    \/ Renewals
    \/ BackupOk
    \/ \E phone_dlg \in {Cancelled, Entered(Phone915), Entered(<<"9", "1", " ">>)} :
           update_gym_phone(phone_dlg)
    \/ \E name_dlg \in InfoAnswers(<<"G", "y", "m">>),
          address_dlg \in InfoAnswers(<<"1", " ", "S", "t">>),
          currency_dlg \in InfoAnswers(<<"$">>),
          theme_dlg \in InfoAnswers(<<"#", "f", "f", "f">>) :
           update_gym_info(name_dlg, address_dlg, currency_dlg, theme_dlg)
    \/ Exit

SpecSettings == Init /\ [][NextSettings]_vars

(***************************************************************************)
(* A member row from enrolment past its expiry                             *)
(***************************************************************************)
NextLifetime ==
    \/ Start
    \/ Renewals
    \/ BackupOk
    \/ add_member(NameA, India, Local1, <<2024, 1, 1>>, 1, TRUE)
    \/ refresh_members
    \/ \E sel \in 1..MaxMemberIds :
           update_member(sel, Entered(NameB), India, Entered(Local1), FALSE)
    \/ \E sel \in 1..MaxMemberIds : delete_member(sel, TRUE)
    \/ add_plan(Entered(2), Entered(100), "Plan")
    \/ delete_plan(1, TRUE)
    \/ add_payment(<<"1">>, <<"5">>, Cash, <<2024, 2, 1>>)
    \/ mark_attendance(<<"1">>, "Present", <<2024, 2, 1>>)
    \/ DayTick

SpecLifetime == Init /\ [][NextLifetime]_vars

(***************************************************************************)
(* Properties                                                              *)
(***************************************************************************)
LastIs(op) == last.op = op

\* C1: the expiry date add_member stores for a plan of m > 0 months is the
\* join date plus 30*m days, never before the join date; joining on
\* 2024-01-01 with a 1-month plan expires on 2024-01-31.
C1_ExpiryIsJoinPlusThirtyPerMonth ==
    (LastIs("add_member") /\ last.result = "ok" /\ last.months > 0) =>
        /\ last.id \in Ids(members)
        /\ LET r == Row(members, last.id)
               j == ToOrdinal(r.join_date)
               e == ToOrdinal(r.expiry_date)
           IN /\ e = j + 30 * last.months
              /\ e >= j
              /\ (r.join_date = <<2024, 1, 1>> /\ last.months = 1)
                    => r.expiry_date = <<2024, 1, 31>>

C1_Witness ==
    /\ LastIs("add_member") /\ last.result = "ok" /\ last.months = 1
    /\ last.id \in Ids(members)
    /\ Row(members, last.id).join_date = <<2024, 1, 1>>
    /\ Row(members, last.id).expiry_date = <<2024, 1, 31>>

\* C2: every row of the members list shows Active exactly when the date of
\* the read is not after the stored expiry date (the expiry day itself is
\* Active), Expired otherwise; the members table has no status column.
C2_StatusIsActiveIffNotPastExpiry ==
    /\ \A i \in 1..Len(members_tree.rows) :
           LET row == members_tree.rows[i]
           IN /\ row.status \in {"Active", "Expired"}
              /\ row.status = "Active" <=> members_tree.today <= ToOrdinal(row.expiry_str)
    /\ \A r \in members : DOMAIN r = {"id", "name", "phone", "join_date", "expiry_date"}

C2_Witness ==
    \E i, k \in 1..Len(members_tree.rows) :
        /\ ToOrdinal(members_tree.rows[i].expiry_str) = members_tree.today
        /\ members_tree.rows[i].status = "Active"
        /\ ToOrdinal(members_tree.rows[k].expiry_str) < members_tree.today
        /\ members_tree.rows[k].status = "Expired"

\* C3: every member row has expiry_date >= join_date.
C3_ExpiryNotBeforeJoin ==
    \A r \in members : ToOrdinal(r.expiry_date) >= ToOrdinal(r.join_date)

\* the members a run of the notifier on the current day has to select
InWindow ==
    {r \in members : /\ ToOrdinal(r.expiry_date) - TodayAt(now) \in {0, 1}
                     /\ r.phone[1] = "9" /\ r.phone[2] = "1"}

\* C4: a run of the renewal notifier addresses exactly the members whose
\* expiry date is today or tomorrow and whose phone starts with 91.
C4_NotifierSelectsWindowAndPrefix ==
    (pc = "backup" /\ LastIs("check_and_send_renewals")) =>
        {last.attempts[i].to : i \in 1..Len(last.attempts)} = {r.phone : r \in InWindow}

C4_Witness ==
    /\ pc = "backup" /\ LastIs("check_and_send_renewals")
    /\ Len(last.attempts) = 1
    /\ \E r \in members : ToOrdinal(r.expiry_date) = TodayAt(now) + 1 /\ r \in InWindow
    /\ \E r \in members : ToOrdinal(r.expiry_date) = TodayAt(now) + 2
                          /\ r.phone[1] = "9" /\ r.phone[2] = "1"

AfterSnapshot ==
    {f \in last.before : f.name # last.backup_path}
        \cup {[name |-> last.backup_path, mtime |-> last.now]}

StaleAtRun ==
    {f \in AfterSnapshot : /\ f.name.prefix = "gym_backup" /\ f.name.ext = "db"
                           /\ f.mtime < last.now - 7 * 24}

\* C6: the prune step removes no file other than backups modified more than
\* seven days before the run, and when it returns it has removed all of
\* those and reports their number.
C6_PruneDeletesExactlyStaleBackups ==
    (LastIs("auto_backup_and_cleanup") /\ last.copy = "ok") =>
        /\ files \subseteq AfterSnapshot
        /\ (AfterSnapshot \ StaleAtRun) \subseteq files
        /\ last.result = "reported" =>
               /\ files = AfterSnapshot \ StaleAtRun
               /\ last.deleted = Cardinality(StaleAtRun)

C6_Witness ==
    /\ LastIs("auto_backup_and_cleanup") /\ last.result = "reported"
    /\ {f.mtime : f \in {g \in last.before : g.name.prefix = "gym_backup"}}
           = {last.now - 8 * 24, last.now - 6 * 24, last.now - 1}
    /\ {f.mtime : f \in {g \in files : g.name.prefix = "gym_backup"}}
           = {last.now - 6 * 24, last.now - 1, last.now}
    /\ last.deleted = 1

\* C7: when the copy of the store fails, the store is unchanged, the
\* failure is reported as a status and the program reaches its main loop.
C7_CopyFailureIsReported ==
    [][(pc = "backup" /\ last'.op = "auto_backup_and_cleanup" /\ last'.copy # "ok") =>
          /\ Store' = Store
          /\ last'.result = "reported"
          /\ pc' = "mainloop"]_vars

\* C8: a backup whose deletion fails does not keep the other backups older
\* than seven days from being deleted in the same run.
C8_PruneContinuesAfterFailedDelete ==
    (LastIs("auto_backup_and_cleanup") /\ last.copy = "ok") =>
        \A f \in StaleAtRun : f.name \notin last.failing => f.name \notin FileNames(files)

\* C9: there is at most one attendance row per member id and date.
C9_OneMarkPerMemberAndDate ==
    \A a, b \in attendance :
        (a.member_id = b.member_id /\ a.att_date = b.att_date) => a.id = b.id

C9_Witness ==
    /\ LastIs("mark_attendance") /\ last.result = "error_already_marked"
    /\ Cardinality(attendance) >= 2

\* C10: no two member rows have the same phone number.
C10_PhonesAreUnique ==
    \A a, b \in members : a.phone = b.phone => a.id = b.id

C10_Witness ==
    /\ LastIs("update_member") /\ last.result = "error_update_failed"
    /\ Cardinality(members) >= 2

ErrorResults ==
    {"error_digits", "error_length", "error_required", "error_plan", "error_date",
     "error_phone_exists", "error_database", "error_update_failed",
     "error_amount_or_date", "error_no_member", "error_already_marked"}

BadDateText(s) == s # << >> /\ ~ValidDateText(s)

Rejected == Store' = Store /\ last'.result \in ErrorResults

\* C11: a call of add_member, update_member, add_payment or mark_attendance
\* whose input has an invalid date, a non-numeric phone, a phone another
\* member holds, or the (member, date) key of an existing attendance row
\* leaves the four tables as they were and reports an error.
C11_ValidationErrorRejected ==
    [][/\ \A phone \in FormPhones, join \in FormJoins :
            ( /\ add_member(NameA, India, phone, join, 1, TRUE)
              /\ \/ BadDateText(join)
                 \/ ~IsDigit(Strip(phone))
                 \/ \E r \in members : r.phone = LStrip(India, {"+"}) \o Strip(phone) )
            => Rejected
       /\ \A sel \in 1..MaxMemberIds, phone \in FormPhones :
            ( /\ update_member(sel, Entered(NameB), India, Entered(phone), FALSE)
              /\ \/ ~IsDigit(phone)
                 \/ \E r \in members :
                        r.id # sel /\ r.phone = LStrip(India, {"+"}) \o Strip(phone) )
            => Rejected
       /\ \A member_id \in FormMemberIds, amount \in FormAmounts, date \in FormDates :
            (add_payment(member_id, amount, Cash, date) /\ BadDateText(date))
            => Rejected
       /\ \A member_id \in FormMemberIds, date \in FormDates :
            ( /\ mark_attendance(member_id, "Present", date)
              /\ \/ BadDateText(date)
                 \/ /\ IsDigit(Strip(member_id)) /\ ValidDateText(date)
                    /\ AlreadyMarked(attendance, ParseInt(Strip(member_id)),
                                     ToOrdinal(date)) )
            => Rejected]_vars

\* C12: every row that add_payment or mark_attendance inserts names a member
\* that exists when it is inserted; a call with an id of no member is
\* rejected with payments and attendance unchanged.
C12_InsertedRowsNameExistingMember ==
    [][/\ \A row \in (payments' \ payments) \cup (attendance' \ attendance) :
            row.member_id \in Ids(members)
       /\ \A member_id \in LedgerMemberIds, amount \in LedgerAmounts :
            ( /\ add_payment(member_id, amount, Cash, <<2024, 2, 1>>)
              /\ ParseInt(member_id) \notin Ids(members) )
            => /\ payments' = payments /\ attendance' = attendance
               /\ last'.result = "error_no_member"
       /\ \A member_id \in LedgerMemberIds :
            ( /\ mark_attendance(member_id, "Present", <<2024, 2, 1>>)
              /\ ParseInt(member_id) \notin Ids(members) )
            => /\ payments' = payments /\ attendance' = attendance
               /\ last'.result = "error_no_member"]_vars

C12_Witness ==
    /\ LastIs("add_payment") /\ last.result = "error_no_member"
    /\ payments # {} /\ attendance # {}
    /\ members # {}

\* the files a startup backup run at this moment leaves in the directory
StartupBackupFiles ==
    PruneLoop(CHOOSE order \in BackupOrders : TRUE,
              WriteFile(files, BackupName(Timestamp(now)), now), now, {}, 0).files

\* C14: a manual backup that is accepted under the offered name leaves the
\* same set of backup files as a startup backup run at that moment: the new
\* snapshot, and no backup older than the retention window.
C14_ManualBackupPrunesLikeStartup ==
    [][backup_db(FALSE, Entered(BackupName(Timestamp(now)))) =>
          {f \in files' : GlobMatch(f.name)}
              = {f \in StartupBackupFiles : GlobMatch(f.name)}]_vars

StartupOps == {"check_and_send_renewals", "auto_backup_and_cleanup"}

InteractiveOps ==
    {"add_member", "add_payment", "mark_attendance", "update_gym_phone", "update_gym_info"}

BackupFiles == {f \in files : GlobMatch(f.name)}

\* C13: a run begins with the start of the process; the Renewal Notifier
\* runs only as the first step of a run and hands over to the Backup
\* Rotation Manager, which runs only as the second step; the interactive
\* state is entered only by the Rotation Manager returning, and an
\* interactive operation happens only in that state, stays in it, and
\* neither sends reminders nor touches the backups.
C13_StartupStepsOncePerRunBeforeInteraction ==
    [][/\ (pc' = "renewals" /\ pc # "renewals") =>
              (pc \in {"stopped", "crashed"} /\ last'.op = "start")
       /\ (pc = "renewals" /\ pc' # "renewals") =>
              (pc' = "backup" /\ last'.op = "check_and_send_renewals")
       /\ (pc = "backup" /\ pc' # "backup") =>
              (pc' \in {"mainloop", "crashed"} /\ last'.op = "auto_backup_and_cleanup")
       /\ (pc' = "mainloop" /\ pc # "mainloop") =>
              (pc = "backup" /\ last'.result = "reported")
       /\ (last'.op \in StartupOps /\ last' # last) => pc \in {"renewals", "backup"}
       /\ last'.op \in InteractiveOps =>
              /\ pc = "mainloop" /\ pc' = "mainloop"
              /\ BackupFiles' = BackupFiles]_vars

C13_Witness ==
    /\ LastIs("update_gym_phone") /\ last.result = "ok"
    /\ Cardinality(BackupFiles) = 2
    /\ payments # {} /\ attendance # {}

\* the backups left by runs that started earlier on the current day
EarlierRunsToday == {f \in BackupFiles : TodayAt(f.mtime) = TodayAt(now) /\ f.mtime < now}

\* C15: in every run, however many runs went before it on the same day,
\* each member in the expiry window with an eligible phone gets a delivery
\* attempt.
C15_EveryRunNotifiesAgain ==
    (pc = "backup" /\ LastIs("check_and_send_renewals")) =>
        \A r \in InWindow : \E i \in 1..Len(last.attempts) : last.attempts[i].to = r.phone

C15_Witness ==
    /\ pc = "backup" /\ LastIs("check_and_send_renewals")
    /\ Cardinality(EarlierRunsToday) = 2
    /\ Len(last.attempts) = 2
    /\ Cardinality(members) = 2

\* C16: delete_member removes exactly the selected member row and leaves
\* every payment and attendance row, those of the deleted member included,
\* as it was; rows that name the member do not block the deletion.
C16_DeleteLeavesPaymentsAndAttendance ==
    [][\A sel \in 1..MaxMemberIds :
          (delete_member(sel, TRUE) /\ sel \in Ids(members)) =>
              /\ members' = {r \in members : r.id # sel}
              /\ payments' = payments
              /\ attendance' = attendance
              /\ plans' = plans]_vars

C16_Witness ==
    /\ LastIs("delete_member") /\ last.result = "delete"
    /\ last.id \notin Ids(members)
    /\ \E p \in payments : p.member_id = last.id
    /\ \E a \in attendance : a.member_id = last.id
    /\ members # {}

\* C17: every payment row holds an amount that is not negative.
C17_PaymentAmountsNonNegative ==
    \A p \in payments : p.amount >= 0

\* C18: a process start that finds a plan leaves the plan table as it is,
\* and a start inserts the four default plans only if no plan was ever
\* inserted before, so that they are inserted at most once.
C18_DefaultsSeededAtMostOnce ==
    [][(pc \in {"stopped", "crashed"} /\ pc' = "renewals") =>
          /\ plans # {} => plans' = plans
          /\ plans' # plans => seq.plans = 0]_vars

\* C19: what a process start loads (gym name, address, currency symbol,
\* theme and gym phone) is what the previous run held in memory when it
\* ended.
C19_RestartLoadsWhatWasHeld ==
    [][(pc = "stopped" /\ pc' = "renewals") => cfg' = cfg]_vars

StatusShown(tree, id) ==
    {tree.rows[i].status : i \in {k \in 1..Len(tree.rows) : tree.rows[k].id = id}}

\* C20: no step changes the join date or the expiry date of a member row that
\* stays in the table, and a member the list shows as Expired is not shown as
\* Active by any later list while the clock does not go back.
C20_DatesFixedAndExpiredStaysExpired ==
    [][/\ \A r \in members : \A q \in members' :
            q.id = r.id => (q.join_date = r.join_date /\ q.expiry_date = r.expiry_date)
       /\ \A id \in Ids(members) \cap Ids(members') :
            "Expired" \in StatusShown(members_tree, id) =>
                "Active" \notin StatusShown(members_tree', id)
       /\ now' >= now]_vars

C20_Witness ==
    /\ LastIs("update_member") /\ last.result = "update"
    /\ StatusShown(members_tree, last.id) = {"Expired"}
    /\ \E r \in members : r.id = last.id /\ r.name = Strip(NameB)
                          /\ members_tree.today > ToOrdinal(r.expiry_date)
    /\ payments # {} /\ 1 \notin Ids(plans)

\* C21: when a run of auto_backup_and_cleanup ends, the snapshot that run
\* wrote is in the directory, and gym.db is in the directory as it was before
\* the run, however old it is.
C21_PruneSparesSnapshotAndStore ==
    [][(pc = "backup" /\ pc' # "backup") =>
          /\ last'.copy # "fail" =>
                 [name |-> BackupName(Timestamp(now)), mtime |-> now] \in files'
          /\ \A f \in files : f.name = DbName => f \in files']_vars

C21_Witness ==
    /\ LastIs("auto_backup_and_cleanup") /\ last.result = "reported"
    /\ last.deleted >= 1
    /\ last.backup_path \in FileNames(files)
    /\ DbName \in FileNames(files)
    /\ IsStale(MTime(files, DbName), last.now)

====
